---- MODULE Spec2Model ----
(***************************************************************************)
(* Model of ciadmin/generate/worker_pools.py: the provider generators      *)
(* (AWS, Azure, Google), the variant expander generate_pool_variants, the  *)
(* assembler make_worker_pool and the driver update_resources.             *)
(*                                                                         *)
(* Python dicts are functions from strings; a missing key is a key outside *)
(* the DOMAIN.  A keyed-by field is either a literal [lit |-> v], the      *)
(* absent value [none |-> TRUE] or a rule [by |-> attr, alt |-> branches]. *)
(* A raised exception is carried as a non-empty string in a `raised`       *)
(* field, together with whatever the function had built when it raised.    *)
(***************************************************************************)
EXTENDS FiniteSets, Integers, Sequences, TLC

VARIABLES
    worker_pools,     \* raw pool definitions (ConfigWorkerPool.fetch_all())
    worker_defaults,  \* the "worker-defaults" table of worker-pools.yml
    environment,      \* Environment.current()
    inputs0,          \* the three inputs as they were when the run started
    pc,               \* "expand" | "make" | "done" | "error"
    wi,               \* generate_pool_variants: index of the current definition
    vi,               \* generate_pool_variants: index of the next variant
    wp,               \* the expanded definition held by the for loop
    yielded,          \* every expanded definition yielded so far in this run
    resources,        \* the resource sink of this run
    err,              \* [src, msg] of the exception that ended the run
    run,              \* 1 for the first run over the inputs, 2 for the second
    first,            \* the sink and outcome of the first run
    gin,              \* generator check: the generator's arguments
    gout              \* generator check: what the generator did

vars == <<worker_pools, worker_defaults, environment, inputs0, pc, wi, vi, wp,
          yielded, resources, err, run, first, gin, gout>>

pipeVars == <<worker_pools, worker_defaults, environment, inputs0, pc, wi, vi,
              wp, yielded, resources, err, run, first>>

(***************************************************************************)
(* Bounds of the model.                                                    *)
(***************************************************************************)
MaxPools == 2      \* raw pool definitions in one run
MaxTypes == 2      \* entries in an instance_types / vmSizes list

(***************************************************************************)
(* Dict helpers.                                                           *)
(***************************************************************************)
EmptyDict == [k \in {} |-> TRUE]

Get(d, k, default) == IF k \in DOMAIN d THEN d[k] ELSE default

Pop(d, k) == [x \in DOMAIN d \ {k} |-> d[x]]

PopAll(d, ks) == [x \in DOMAIN d \ ks |-> d[x]]

Put(d, k, v) == [x \in DOMAIN d \cup {k} |-> IF x = k THEN v ELSE d[x]]

\* dict.update(other)
Update(d, other) ==
    [x \in DOMAIN d \cup DOMAIN other |-> IF x \in DOMAIN other THEN other[x] ELSE d[x]]

Lit(v) == [lit |-> v]

None == [none |-> TRUE]

IsNone(f) == "none" \in DOMAIN f

IsRule(f) == "by" \in DOMAIN f

By(attr, alt) == [by |-> attr, alt |-> alt]

Raise(msg) == [raised |-> msg]

Raised(r) == "raised" \in DOMAIN r

RECURSIVE SeqToSet(_)
SeqToSet(s) == IF s = <<>> THEN {} ELSE {Head(s)} \cup SeqToSet(Tail(s))

(***************************************************************************)
(* util/templates.py merge: later mappings win, nested mappings are merged *)
(* key by key.  The keys whose values are mappings are the ones of         *)
(* MappingKeys; every other value is replaced wholesale.                   *)
(***************************************************************************)
MappingKeys == {"Placement", "InstanceMarketOptions", "tags", "workerConfig",
                "hardwareProfile", "billingProfile", "storageProfile"}

RECURSIVE merge(_, _)
merge(a, b) ==
    [k \in DOMAIN a \cup DOMAIN b |->
        IF k \notin DOMAIN b THEN a[k]
        ELSE IF k \in DOMAIN a /\ k \in MappingKeys THEN merge(a[k], b[k])
        ELSE b[k]]

merge3(a, b, c) == merge(merge(a, b), c)

(***************************************************************************)
(* util/keyed_by.py evaluate_keyed_by: a literal resolves to itself; a     *)
(* rule resolves the branch of the attribute's value, else the "default"   *)
(* branch, else raises.                                                    *)
(***************************************************************************)
RECURSIVE evaluate_keyed_by(_, _, _)
evaluate_keyed_by(value, item_name, attributes) ==
    IF ~IsRule(value) THEN value
    ELSE IF value.by \in DOMAIN attributes /\ attributes[value.by] \in DOMAIN value.alt
         THEN evaluate_keyed_by(value.alt[attributes[value.by]], item_name, attributes)
    ELSE IF "default" \in DOMAIN value.alt
         THEN evaluate_keyed_by(value.alt["default"], item_name, attributes)
    ELSE Raise("KeyedByError")

(***************************************************************************)
(* str.split(".", 1) on an instance type name.  A name is the sequence of  *)
(* its pieces, "." being a piece of its own.                               *)
(***************************************************************************)
RECURSIVE FirstDot(_, _)
FirstDot(s, k) ==
    IF k > Len(s) THEN 0 ELSE IF s[k] = "." THEN k ELSE FirstDot(s, k + 1)

Split1(s) ==
    LET d == FirstDot(s, 1)
    IN  IF d = 0 THEN <<s>>
        ELSE <<SubSeq(s, 1, d - 1), SubSeq(s, d + 1, Len(s))>>

\* a faulty variant of is_invalid_aws_instance_type: "or" in place of "and"
is_invalid_aws_instance_type_or(invalid_instances, zone, instance_type) ==
    LET parts == Split1(instance_type)
    IN  IF Len(parts) # 2 THEN Raise("ValueError: not enough values to unpack")
        ELSE [value |-> \E i \in 1..Len(invalid_instances) :
                            \/ zone \in SeqToSet(invalid_instances[i]["zones"])
                            \/ parts[1] \in SeqToSet(invalid_instances[i]["families"])]

is_invalid_aws_instance_type(invalid_instances, zone, instance_type) ==
    LET parts == Split1(instance_type)
    IN  IF Len(parts) # 2 THEN Raise("ValueError: not enough values to unpack")
        ELSE [value |-> \E i \in 1..Len(invalid_instances) :
                            /\ zone \in SeqToSet(invalid_instances[i]["zones"])
                            /\ parts[1] \in SeqToSet(invalid_instances[i]["families"])]

(***************************************************************************)
(* _validate_instance_capacity: the message of the first ValueError, or "" *)
(***************************************************************************)
CapacityKeyError == "ValueError: set capacityPerInstance"

WorkerConfigCapacityError == "ValueError: set capacityPerInstance rather than the worker config"

UnsupportedCapacityError == "ValueError: does not support capacity-per-instance != 1"

\* a faulty variant of _validate_instance_capacity: the capacity-per-instance test is gone
RECURSIVE validate_from_nocpi(_, _, _, _)
validate_from_nocpi(pool_id, implementation, instance_types, k) ==
    IF k > Len(instance_types) THEN ""
    ELSE LET instance_type == instance_types[k]
         IN  IF "capacity" \in DOMAIN instance_type THEN CapacityKeyError
             ELSE IF "capacity" \in DOMAIN Get(instance_type, "worker-config", EmptyDict)
                  THEN WorkerConfigCapacityError
             ELSE validate_from_nocpi(pool_id, implementation, instance_types, k + 1)

RECURSIVE validate_from(_, _, _, _)
validate_from(pool_id, implementation, instance_types, k) ==
    IF k > Len(instance_types) THEN ""
    ELSE LET instance_type == instance_types[k]
         IN  IF "capacity" \in DOMAIN instance_type THEN CapacityKeyError
             ELSE IF "capacity" \in DOMAIN Get(instance_type, "worker-config", EmptyDict)
                  THEN WorkerConfigCapacityError
             ELSE IF /\ Get(instance_type, "capacityPerInstance", 1) # 1
                     /\ implementation # "docker-worker"
                  THEN UnsupportedCapacityError
             ELSE validate_from(pool_id, implementation, instance_types, k + 1)

validate_instance_capacity_nocpi(pool_id, implementation, instance_types) ==
    validate_from_nocpi(pool_id, implementation, instance_types, 1)

validate_instance_capacity(pool_id, implementation, instance_types) ==
    validate_from(pool_id, implementation, instance_types, 1)

(***************************************************************************)
(* WorkerImage.image_id(provider_id, region): an opaque identifier.        *)
(***************************************************************************)
image_id(image, provider_id, region) == image \o "@" \o provider_id \o "/" \o region

(***************************************************************************)
(* What a generator hands back: `raised` is "" on a normal return, `built` *)
(* is the launch_configs list at the return or at the raise, `work` is the *)
(* config argument as the call left it, `config` is the returned mapping.  *)
(***************************************************************************)
GenRaise(msg, built, work) ==
    [raised |-> msg, built |-> built, work |-> work, config |-> EmptyDict]

GenReturn(built, work, lifecycle) ==
    IF "maxCapacity" \notin DOMAIN work
    THEN GenRaise("KeyError: maxCapacity", built, work)
    ELSE [raised |-> "", built |-> built, work |-> work,
          config |-> [minCapacity |-> Get(work, "minCapacity", Lit(0)),
                      maxCapacity |-> work["maxCapacity"],
                      lifecycle |-> lifecycle,
                      launchConfigs |-> built]]

\* defaults = evaluate_keyed_by(defaults, "defaults", {"provider": provider_id})
ProviderDefaults(defaults, provider_id) ==
    evaluate_keyed_by(defaults, "defaults", [provider |-> provider_id])

\* worker_config = merge(evaluate_keyed_by(defaults.get("worker-config", {}), ...),
\*                       config.get("worker-config", {}))
BaseWorkerConfig(defaults, pool_id, implementation) ==
    evaluate_keyed_by(Get(defaults, "worker-config", Lit(EmptyDict)), pool_id,
                      [implementation |-> implementation])

(***************************************************************************)
(* get_aws_provider_config                                                 *)
(***************************************************************************)
AwsLaunchConfig(c, region, security_groups, availability_zone, subnet_id, instance_type) ==
    LET instance_worker_config ==
            IF c.implementation = "docker-worker"
            THEN merge3(c.worker_config,
                        Get(instance_type, "worker-config", EmptyDict),
                        [capacity |-> Get(instance_type, "capacityPerInstance", 1)])
            ELSE merge(c.worker_config, Get(instance_type, "worker-config", EmptyDict))
        lc0 == [ImageId |-> image_id(c.image, c.provider_id, region),
                Placement |-> [AvailabilityZone |-> availability_zone],
                SubnetId |-> subnet_id,
                SecurityGroupIds |-> security_groups,
                InstanceType |-> instance_type["instanceType"]]
        lc1 == merge(lc0, Get(instance_type, "launchConfig", EmptyDict))
        lc2 == IF c.spot
               THEN Put(lc1, "InstanceMarketOptions", [MarketType |-> "spot"])
               ELSE lc1
    IN  [capacityPerInstance |-> Get(instance_type, "capacityPerInstance", 1),
         region |-> region,
         launchConfig |-> lc2,
         workerConfig |-> instance_worker_config,
         additionalUserData |->
             Update(Update(EmptyDict, c.user_data),
                    Get(instance_type, "additional-user-data", EmptyDict))]

\* for instance_type in instance_types: (lines 95-137)
RECURSIVE AwsInstanceLoop(_, _, _, _, _, _, _)
AwsInstanceLoop(c, region, security_groups, availability_zone, subnet_id, k, acc) ==
    IF k > Len(c.instance_types) THEN [raised |-> "", lcs |-> acc]
    ELSE LET instance_type == c.instance_types[k]
             invalid == is_invalid_aws_instance_type(
                            c.aws_config["invalid-instances"], availability_zone,
                            instance_type["instanceType"])
         IN  IF Raised(invalid) THEN [raised |-> invalid.raised, lcs |-> acc]
             ELSE AwsInstanceLoop(c, region, security_groups, availability_zone,
                     subnet_id, k + 1,
                     IF invalid.value THEN acc
                     ELSE Append(acc, AwsLaunchConfig(c, region, security_groups,
                                        availability_zone, subnet_id, instance_type)))

\* for availability_zone in availability_zones: (lines 88-137)
RECURSIVE AwsZoneLoop(_, _, _, _, _, _)
AwsZoneLoop(c, region, security_groups, availability_zones, z, acc) ==
    IF z > Len(availability_zones) THEN [raised |-> "", lcs |-> acc]
    ELSE LET availability_zone == availability_zones[z]
             subnet_id == evaluate_keyed_by(c.aws_config["subnet-id"], c.pool_id,
                              [x \in {"availability-zone"} |-> availability_zone])
         IN  IF Raised(subnet_id) THEN [raised |-> subnet_id.raised, lcs |-> acc]
             ELSE LET r == AwsInstanceLoop(c, region, security_groups,
                               availability_zone, subnet_id.lit, 1, acc)
                  IN  IF r.raised # "" THEN r
                      ELSE AwsZoneLoop(c, region, security_groups,
                                       availability_zones, z + 1, r.lcs)

\* for region in regions: (lines 79-137)
RECURSIVE AwsRegionLoop(_, _, _, _)
AwsRegionLoop(c, regions, r, acc) ==
    IF r > Len(regions) THEN [raised |-> "", lcs |-> acc]
    ELSE LET region == regions[r]
             availability_zones ==
                 evaluate_keyed_by(c.aws_config["availability-zones"], c.pool_id,
                                   [region |-> region])
             security_groups ==
                 evaluate_keyed_by(c.aws_config["security-groups"], c.pool_id,
                                   [region |-> region, security |-> c.security])
         IN  IF Raised(availability_zones)
             THEN [raised |-> availability_zones.raised, lcs |-> acc]
             ELSE IF Raised(security_groups)
             THEN [raised |-> security_groups.raised, lcs |-> acc]
             ELSE LET res == AwsZoneLoop(c, region, security_groups.lit,
                                 availability_zones.lit, 1, acc)
                  IN  IF res.raised # "" THEN res
                      ELSE AwsRegionLoop(c, regions, r + 1, res.lcs)

get_aws_provider_config(env, provider_id, pool_id, config, worker_images, defaults) ==
    IF "regions" \notin DOMAIN config
    THEN GenRaise("KeyError: regions", <<>>, config)
    ELSE IF "image" \notin DOMAIN config
    THEN GenRaise("KeyError: image", <<>>, Pop(config, "regions"))
    ELSE IF config["image"].lit \notin DOMAIN worker_images
    THEN GenRaise("KeyError: worker_images", <<>>, Pop(config, "regions"))
    ELSE IF "instance_types" \notin DOMAIN config
    THEN GenRaise("KeyError: instance_types", <<>>, Pop(config, "regions"))
    ELSE
    LET regions == config["regions"]
        instance_types == config["instance_types"]
        security == Get(config, "security", Lit("untrusted"))
        implementation == Get(config, "implementation", "docker-worker")
        work1 == PopAll(config, {"regions", "security", "spot",
                                 "additional-user-data", "implementation"})
        work == Pop(work1, "lifecycle")
        dflt == ProviderDefaults(defaults, provider_id)
    IN  IF Raised(dflt) THEN GenRaise(dflt.raised, <<>>, work1)
        ELSE
        LET lifecycle == merge(Get(dflt.lit, "lifecycle", EmptyDict),
                               Get(config, "lifecycle", EmptyDict))
            base == BaseWorkerConfig(dflt.lit, pool_id, implementation)
        IN  IF Raised(base) THEN GenRaise(base.raised, <<>>, work)
            ELSE
            LET invalid == validate_instance_capacity(pool_id, implementation,
                                                      instance_types)
                c == [aws_config |-> env.aws_config,
                      provider_id |-> provider_id,
                      pool_id |-> pool_id,
                      image |-> worker_images[config["image"].lit],
                      instance_types |-> instance_types,
                      security |-> security.lit,
                      spot |-> Get(config, "spot", TRUE),
                      user_data |-> Get(config, "additional-user-data", EmptyDict),
                      implementation |-> implementation,
                      worker_config |-> merge(base.lit,
                                              Get(config, "worker-config", EmptyDict))]
            IN  IF invalid # "" THEN GenRaise(invalid, <<>>, work)
                ELSE LET loop == AwsRegionLoop(c, regions, 1, <<>>)
                     IN  IF loop.raised # ""
                         THEN GenRaise(loop.raised, loop.lcs, work)
                         ELSE GenReturn(loop.lcs, work, lifecycle)

(***************************************************************************)
(* get_azure_provider_config                                               *)
(***************************************************************************)
\* "".join(pieces)
RECURSIVE Join(_)
Join(pieces) == IF pieces = <<>> THEN "" ELSE Head(pieces) \o Join(Tail(pieces))

\* location.replace("-", ""): a location is the sequence of its pieces
RemoveDashes(location) == SelectSeq(location, LAMBDA piece : piece # "-")

AzureLaunchConfig(c, location, vmSize) ==
    LET loc == RemoveDashes(location)
        ImageId == image_id(c.image, c.provider_id, Join(location))
        subscription_id == <<"/subscriptions/", c.azure_config["subscription"]>>
        resource_suffix == location \o <<"-", c.purpose>>
        subnetId == subscription_id \o <<"/resourceGroups/rg-">> \o resource_suffix
                    \o <<"/providers/Microsoft.Network/virtualNetworks/vn-">>
                    \o resource_suffix \o <<"/subnets/sn-">> \o resource_suffix
        imageReference_id == subscription_id \o <<"/resourceGroups/", c.image_rgroup,
                                 "/providers/Microsoft.Compute/images/", ImageId>>
        launch_config ==
            [location |-> loc,
             subnetId |-> subnetId,
             tags |-> merge(c.tags, EmptyDict),
             workerConfig |-> merge(c.worker_config, EmptyDict),
             hardwareProfile |-> [vmSize |-> vmSize],
             priority |-> "spot",
             billingProfile |-> [maxPrice |-> -1],
             evictionPolicy |-> "Delete",
             capacityPerInstance |-> 1,
             storageProfile |-> [imageReference |-> [id |-> imageReference_id]]]
    IN  merge(launch_config, Get(vmSize, "launchConfig", EmptyDict))

\* for vmSize in vmSizes: (lines 177-208)
RECURSIVE AzureSizeLoop(_, _, _, _)
AzureSizeLoop(c, location, k, acc) ==
    IF k > Len(c.vmSizes) THEN acc
    ELSE AzureSizeLoop(c, location, k + 1,
                       Append(acc, AzureLaunchConfig(c, location, c.vmSizes[k])))

\* for location in locations: (lines 176-208)
RECURSIVE AzureLocationLoop(_, _, _, _)
AzureLocationLoop(c, locations, l, acc) ==
    IF l > Len(locations) THEN acc
    ELSE AzureLocationLoop(c, locations, l + 1,
                           AzureSizeLoop(c, locations[l], 1, acc))

AzureRequired == <<"locations", "image_resource_group", "vmSizes", "worker-purpose", "image">>

\* the first of the required keys that the config lacks, in the order the
\* code reads them (lines 151-155), or ""
RECURSIVE FirstMissing(_, _, _)
FirstMissing(config, keys, k) ==
    IF k > Len(keys) THEN ""
    ELSE IF keys[k] \notin DOMAIN config THEN keys[k]
    ELSE FirstMissing(config, keys, k + 1)

get_azure_provider_config(env, provider_id, pool_id, config, worker_images, defaults) ==
    LET missing == FirstMissing(config, AzureRequired, 1)
        early == {"locations", "image_resource_group"}
        popped == IF missing = "locations" THEN {}
                  ELSE IF missing = "image_resource_group" THEN {"locations"}
                  ELSE early
    IN
    IF missing # ""
    THEN GenRaise("KeyError: " \o missing, <<>>, PopAll(config, popped))
    ELSE IF config["image"].lit \notin DOMAIN worker_images
    THEN GenRaise("KeyError: worker_images", <<>>, PopAll(config, early))
    ELSE
    LET implementation == Get(config, "implementation",
                              "generic-worker/worker-runner-windows")
        work1 == PopAll(config, early \cup {"additional-user-data",
                                            "implementation", "spot"})
        work == Pop(work1, "lifecycle")
        dflt == ProviderDefaults(defaults, provider_id)
    IN  IF Raised(dflt) THEN GenRaise(dflt.raised, <<>>, work1)
        ELSE
        LET lifecycle == merge(Get(dflt.lit, "lifecycle", EmptyDict),
                               Get(config, "lifecycle", EmptyDict))
            base == BaseWorkerConfig(dflt.lit, pool_id, implementation)
        IN  IF Raised(base) THEN GenRaise(base.raised, <<>>, work)
            ELSE
            LET c == [azure_config |-> env.azure_config,
                      provider_id |-> provider_id,
                      image |-> worker_images[config["image"].lit],
                      image_rgroup |-> config["image_resource_group"],
                      purpose |-> config["worker-purpose"],
                      vmSizes |-> config["vmSizes"],
                      tags |-> Get(config, "tags", EmptyDict),
                      worker_config |-> merge(base.lit,
                                              Get(config, "worker-config", EmptyDict))]
            IN  GenReturn(AzureLocationLoop(c, config["locations"], 1, <<>>),
                          work, lifecycle)

(***************************************************************************)
(* get_google_provider_config                                              *)
(***************************************************************************)
\* image.image_id(provider_id): no region
NoRegion == ""

\* for disk in launch_config["disks"]: (lines 250-252)
GoogleDisks(disks, image_name) ==
    [d \in 1..Len(disks) |->
        IF Get(disks[d]["initializeParams"], "sourceImage", "") = "<image>"
        THEN [disks[d] EXCEPT !["initializeParams"] =
                 Put(disks[d]["initializeParams"], "sourceImage", image_name)]
        ELSE disks[d]]

GoogleLaunchConfig(c, region, zone, instance_type) ==
    LET lc0 == instance_type                                     \* copy.deepcopy
        lc1 == IF "capacityPerInstance" \in DOMAIN lc0 THEN lc0
               ELSE Put(lc0, "capacityPerInstance", 1)            \* setdefault
        lc2 == Update(lc1, [region |-> region, zone |-> zone])
        lc3 == Put(lc2, "disks", GoogleDisks(lc2["disks"], c.image_name))
        wc0 == merge(c.worker_config, Get(lc3, "worker-config", EmptyDict))
        wc1 == IF c.implementation = "docker-worker"
               THEN merge(wc0, [capacity |->
                                   Get(instance_type, "capacityPerInstance", 1)])
               ELSE wc0
        lc4 == Put(Pop(lc3, "worker-config"), "workerConfig", wc1)
        lc5 == Put(Pop(lc4, "machine_type"), "machineType",
                   <<"zones/", zone, "/machineTypes/", lc4["machine_type"]>>)
    IN  Put(lc5, "scheduling", [onHostMaintenance |-> "terminate",
                                automaticRestart |-> FALSE,
                                preemptible |-> TRUE])

\* for instance_type in instance_types: (lines 246-273)
RECURSIVE GoogleInstanceLoop(_, _, _, _, _)
GoogleInstanceLoop(c, region, zone, k, acc) ==
    IF k > Len(c.instance_types) THEN [raised |-> "", lcs |-> acc]
    ELSE LET instance_type == c.instance_types[k]
         IN  IF "disks" \notin DOMAIN instance_type
             THEN [raised |-> "KeyError: disks", lcs |-> acc]
             ELSE IF "machine_type" \notin DOMAIN instance_type
             THEN [raised |-> "KeyError: machine_type", lcs |-> acc]
             ELSE GoogleInstanceLoop(c, region, zone, k + 1,
                      Append(acc, GoogleLaunchConfig(c, region, zone, instance_type)))

\* for zone in zones: (lines 245-273)
RECURSIVE GoogleZoneLoop(_, _, _, _, _)
GoogleZoneLoop(c, region, zones, z, acc) ==
    IF z > Len(zones) THEN [raised |-> "", lcs |-> acc]
    ELSE LET r == GoogleInstanceLoop(c, region, zones[z], 1, acc)
         IN  IF r.raised # "" THEN r
             ELSE GoogleZoneLoop(c, region, zones, z + 1, r.lcs)

\* for region in regions: (lines 243-273)
RECURSIVE GoogleRegionLoop(_, _, _, _)
GoogleRegionLoop(c, regions, r, acc) ==
    IF r > Len(regions) THEN [raised |-> "", lcs |-> acc]
    ELSE LET zones == evaluate_keyed_by(c.google_config["zones"], c.pool_id,
                                        [region |-> regions[r]])
         IN  IF Raised(zones) THEN [raised |-> zones.raised, lcs |-> acc]
             ELSE LET res == GoogleZoneLoop(c, regions[r], zones.lit, 1, acc)
                  IN  IF res.raised # "" THEN res
                      ELSE GoogleRegionLoop(c, regions, r + 1, res.lcs)

get_google_provider_config(env, provider_id, pool_id, config, worker_images, defaults) ==
    IF "regions" \notin DOMAIN config
    THEN GenRaise("KeyError: regions", <<>>, config)
    ELSE IF "image" \notin DOMAIN config
    THEN GenRaise("KeyError: image", <<>>, Pop(config, "regions"))
    ELSE IF config["image"].lit \notin DOMAIN worker_images
    THEN GenRaise("KeyError: worker_images", <<>>, Pop(config, "regions"))
    ELSE IF "instance_types" \notin DOMAIN config
    THEN GenRaise("KeyError: instance_types", <<>>, Pop(config, "regions"))
    ELSE
    LET instance_types == config["instance_types"]
        implementation == Get(config, "implementation", "docker-worker")
        work1 == PopAll(config, {"regions", "implementation"})
        work == Pop(work1, "lifecycle")
        dflt == ProviderDefaults(defaults, provider_id)
    IN  IF Raised(dflt) THEN GenRaise(dflt.raised, <<>>, work1)
        ELSE
        LET lifecycle == merge(Get(dflt.lit, "lifecycle", EmptyDict),
                               Get(config, "lifecycle", EmptyDict))
            base == BaseWorkerConfig(dflt.lit, pool_id, implementation)
        IN  IF Raised(base) THEN GenRaise(base.raised, <<>>, work)
            ELSE
            LET invalid == validate_instance_capacity(pool_id, implementation,
                                                      instance_types)
                c == [google_config |-> env.google_config,
                      pool_id |-> pool_id,
                      image_name |-> image_id(worker_images[config["image"].lit],
                                              provider_id, NoRegion),
                      instance_types |-> instance_types,
                      implementation |-> implementation,
                      worker_config |-> merge(base.lit,
                                              Get(config, "worker-config", EmptyDict))]
            IN  IF invalid # "" THEN GenRaise(invalid, <<>>, work)
                ELSE LET loop == GoogleRegionLoop(c, config["regions"], 1, <<>>)
                     IN  IF loop.raised # ""
                         THEN GenRaise(loop.raised, loop.lcs, work)
                         ELSE GenReturn(loop.lcs, work, lifecycle)

(***************************************************************************)
(* PROVIDER_IMPLEMENTATIONS and make_worker_pool                           *)
(***************************************************************************)
PROVIDER_IMPLEMENTATIONS == {"aws", "google", "azure"}

ApplyGenerator(implementation, env, provider_id, pool_id, config, worker_images, defaults) ==
    CASE implementation = "aws" ->
            get_aws_provider_config(env, provider_id, pool_id, config,
                                    worker_images, defaults)
      [] implementation = "google" ->
            get_google_provider_config(env, provider_id, pool_id, config,
                                       worker_images, defaults)
      [] implementation = "azure" ->
            get_azure_provider_config(env, provider_id, pool_id, config,
                                      worker_images, defaults)

WorkerPool(d, config) ==
    [workerPoolId |-> d.pool_id,
     description |-> d.description,
     owner |-> d.owner,
     providerId |-> d.provider_id,
     config |-> config,
     emailOnError |-> d.email_on_error]

\* a faulty variant of make_worker_pool: every definition is passed through
make_worker_pool_passthrough(env, d, worker_images, defaults) ==
    [raised |-> "", wp |-> d, record |-> WorkerPool(d, d.config)]

\* lines 306-313, or the generator's exception passing through
RecordOf(d, g) ==
    IF g.raised # "" THEN [raised |-> g.raised, wp |-> d]
    ELSE [raised |-> "", wp |-> d, record |-> WorkerPool(d, g.config)]

\* `raised` is "" on a normal return; `record` is the WorkerPool returned;
\* `wp` is the definition as the call left it (the generator worked on a
\* deep copy of wp.config)
make_worker_pool(env, d, worker_images, defaults) ==
    IF d.provider_id.lit \in DOMAIN env.worker_manager["providers"]
    THEN IF env.worker_manager["providers"][d.provider_id.lit]["implementation"]
               \notin PROVIDER_IMPLEMENTATIONS
         THEN [raised |-> "KeyError: PROVIDER_IMPLEMENTATIONS", wp |-> d]
         ELSE RecordOf(d, ApplyGenerator(
                  env.worker_manager["providers"][d.provider_id.lit]["implementation"],
                  env, d.provider_id.lit, d.pool_id, d.config, worker_images, defaults))
    ELSE [raised |-> "", wp |-> d, record |-> WorkerPool(d, d.config)]

(***************************************************************************)
(* generate_pool_variants                                                  *)
(***************************************************************************)
\* the replacement fields of a pool-id template and the attribute each names
ReplacementFields == ("{letter}" :> "letter") @@ ("{size}" :> "size")

\* str.format(**variant): a template is the sequence of its pieces
RECURSIVE Format(_, _)
Format(template, variant) ==
    IF template = <<>> THEN [value |-> ""]
    ELSE LET piece == Head(template)
             rest == Format(Tail(template), variant)
         IN  IF piece \in DOMAIN ReplacementFields
             THEN IF ReplacementFields[piece] \notin DOMAIN variant
                  THEN Raise("KeyError: " \o ReplacementFields[piece])
                  ELSE IF Raised(rest) THEN rest
                  ELSE [value |-> variant[ReplacementFields[piece]] \o rest.value]
             ELSE IF Raised(rest) THEN rest
             ELSE [value |-> piece \o rest.value]

KeyedByKeys == <<"image", "maxCapacity", "minCapacity", "security">>

\* for key in ["image", "maxCapacity", "minCapacity", "security"]: (lines 324-330)
RECURSIVE UpdateKeys(_, _, _, _)
UpdateKeys(config, name, attributes, k) ==
    IF k > Len(KeyedByKeys) THEN [raised |-> "", config |-> config]
    ELSE LET key == KeyedByKeys[k]
         IN  IF key \notin DOMAIN config
             THEN UpdateKeys(config, name, attributes, k + 1)
             ELSE LET value == evaluate_keyed_by(config[key], name, attributes)
                  IN  IF Raised(value)
                      THEN [raised |-> value.raised, config |-> config]
                      ELSE IF ~IsNone(value)
                      THEN UpdateKeys(Put(config, key, value), name, attributes, k + 1)
                      ELSE UpdateKeys(Pop(config, key), name, attributes, k + 1)

\* a faulty variant of update_config: works on the caller's mapping, not on a deep copy
update_config_nocopy(config, name, attributes) ==
    LET r == UpdateKeys(config, name, attributes, 1)
    IN  [raised |-> r.raised, config |-> r.config, arg |-> r.config]

\* `config` is the mapping returned, `arg` the caller's mapping after the
\* call: config = copy.deepcopy(config) leaves it as it was
update_config(config, name, attributes) ==
    LET r == UpdateKeys(config, name, attributes, 1)
    IN  [raised |-> r.raised, config |-> r.config, arg |-> config]

\* a faulty variant of Attributes: the variant's attributes are left out
Attributes_novariant(env, variant) == [environment |-> env.ident]

\* attributes = {"environment": environment}; attributes.update(variant)
Attributes(env, variant) == Update([environment |-> env.ident], variant)

\* the body of the inner for loop (lines 335-345): `wp` is the definition
\* yielded, `raw` is the raw definition as the body left it
ExpandVariant(raw, variant, env) ==
    LET name == Format(raw.pool_id, variant)
    IN  IF Raised(name) THEN [raised |-> name.raised, raw |-> raw]
        ELSE
        LET attributes == Attributes(env, variant)
            provider_id == evaluate_keyed_by(raw.provider_id, name.value, attributes)
        IN  IF Raised(provider_id) THEN [raised |-> provider_id.raised, raw |-> raw]
            ELSE
            LET c == update_config(raw.config, name.value, attributes)
                raw1 == [raw EXCEPT !.config = c.arg]
            IN  IF c.raised # "" THEN [raised |-> c.raised, raw |-> raw1]
                ELSE [raised |-> "", raw |-> raw1,
                      wp |-> [raw EXCEPT !.pool_id = name.value,
                                         !.provider_id = provider_id,
                                         !.config = c.config,
                                         !.variants = <<EmptyDict>>]]

\* the position of the next (definition, variant) pair at or after (w, v);
\* w > Len(pools) when the two for loops are exhausted
RECURSIVE NextPair(_, _, _)
NextPair(pools, w, v) ==
    IF w > Len(pools) THEN [w |-> w, v |-> 1]
    ELSE IF v <= Len(pools[w].variants) THEN [w |-> w, v |-> v]
    ELSE NextPair(pools, w + 1, 1)

(***************************************************************************)
(* The inputs of a run: environments, images, default tables.              *)
(***************************************************************************)
M5 == <<"m5", ".", "large">>

C5 == <<"c5", ".", "xlarge">>

Metal == <<"metal">>

InvalidTables ==
    { <<>>,
      << [zones |-> <<"us-east-1a">>, families |-> << <<"m5">> >>] >>,
      << [zones |-> <<"us-east-1a", "us-west-2a">>, families |-> << <<"c5">> >>],
         [zones |-> <<"us-east-1b">>, families |-> << <<"m5">>, <<"c5">> >>] >> }

AwsConfig(invalid_instances) ==
    ("availability-zones" :>
        By("region", ("us-east-1" :> Lit(<<"us-east-1a", "us-east-1b">>))
                  @@ ("us-west-2" :> Lit(<<"us-west-2a">>))))
    @@ ("security-groups" :>
        By("region", ("default" :>
            By("security", ("untrusted" :> Lit(<<"sg-untrusted">>))
                        @@ ("trusted" :> Lit(<<"sg-trusted">>))))))
    @@ ("subnet-id" :>
        By("availability-zone", ("us-east-1a" :> Lit("subnet-1a"))
                             @@ ("us-east-1b" :> Lit("subnet-1b"))
                             @@ ("us-west-2a" :> Lit("subnet-2a"))))
    @@ ("invalid-instances" :> invalid_instances)

GoogleConfig ==
    [zones |-> By("region", ("us-central1" :> Lit(<<"us-central1-a", "us-central1-b">>))
                         @@ ("us-west1" :> Lit(<<"us-west1-a">>)))]

AzureConfig == [subscription |-> "sub-1"]

Providers ==
    ("aws" :> [implementation |-> "aws"])
    @@ ("gcp" :> [implementation |-> "google"])
    @@ ("azure" :> [implementation |-> "azure"])
    @@ ("static" :> [implementation |-> "static"])

Env(invalid_instances) ==
    [name |-> "firefoxci",
     ident |-> "<Environment firefoxci>",
     aws_config |-> AwsConfig(invalid_instances),
     google_config |-> GoogleConfig,
     azure_config |-> AzureConfig,
     worker_manager |-> [providers |-> Providers]]

Environments == {Env(t) : t \in InvalidTables}

WorkerImages == ("ubuntu" :> "img-ubuntu") @@ ("windows" :> "img-windows")

ProviderDefault ==
    ("lifecycle" :> [registrationTimeout |-> "30m"])
    @@ ("worker-config" :>
          By("implementation", ("docker-worker" :> Lit([shutdown |-> "enabled"]))
                            @@ ("default" :> Lit(EmptyDict))))

DefaultsAll == By("provider", ("default" :> Lit(ProviderDefault)))

DefaultsAwsOnly == By("provider", ("aws" :> Lit(ProviderDefault)))

(***************************************************************************)
(* Generator arguments: every instance_types / vmSizes list of up to       *)
(* MaxTypes entries, in a handful of pool frames per provider.             *)
(***************************************************************************)
EntryMods ==
    { EmptyDict,
      [capacityPerInstance |-> 1],
      [capacityPerInstance |-> 2],
      [capacity |-> 2],
      ("worker-config" :> [capacity |-> 2]),
      ("worker-config" :> [shutdown |-> "idle"]),
      [launchConfig |-> [capacityPerInstance |-> 2]] }

AwsEntries ==
    {[instanceType |-> n] @@ m : n \in {M5, C5}, m \in EntryMods}
    \cup {[instanceType |-> Metal]}

GoogleBase(machine_type) ==
    [machine_type |-> machine_type,
     disks |-> << [initializeParams |-> [sourceImage |-> "<image>"]],
                  [initializeParams |-> [diskSizeGb |-> "75"]] >>]

GoogleEntries ==
    {GoogleBase(n) @@ m : n \in {"n2-standard-4", "c2-standard-16"}, m \in EntryMods}

AzureEntries ==
    {[vmSize |-> n] @@ m : n \in {"Standard_F8s_v2", "Standard_D32s_v3"}, m \in EntryMods}

RECURSIVE SeqsUpTo(_, _)
SeqsUpTo(S, n) ==
    IF n = 0 THEN {<<>>}
    ELSE LET shorter == SeqsUpTo(S, n - 1)
         IN  shorter \cup {Append(q, x) : q \in {t \in shorter : Len(t) = n - 1}, x \in S}

Implementations == {"", "docker-worker", "generic-worker"}

\* the optional "implementation" key; "" stands for a config without it
WithImplementation(config, implementation) ==
    IF implementation = "" THEN config ELSE Put(config, "implementation", implementation)

AwsFrame(regions, implementation, image, capacities) ==
    WithImplementation(
        [regions |-> regions, image |-> Lit(image), security |-> Lit("trusted")]
        @@ capacities, implementation)

Capacities == [maxCapacity |-> Lit(10), minCapacity |-> Lit(1)]

AwsRegionLists ==
    { <<>>, <<"us-east-1">>, <<"us-west-2", "us-east-1">>, <<"eu-central-1">>,
      <<"us-east-1", "eu-central-1">> }

AwsFrames ==
    {AwsFrame(r, i, "ubuntu", Capacities) : r \in AwsRegionLists, i \in Implementations}
    \cup {AwsFrame(<<"us-east-1">>, "", "missing", Capacities),
          AwsFrame(<<"us-east-1">>, "", "ubuntu", EmptyDict)}

GoogleFrame(regions, implementation, image, capacities) ==
    WithImplementation([regions |-> regions, image |-> Lit(image)] @@ capacities,
                       implementation)

GoogleRegionLists ==
    { <<>>, <<"us-central1">>, <<"us-west1", "us-central1">>, <<"europe-west4">>,
      <<"us-central1", "europe-west4">> }

GoogleFrames ==
    {GoogleFrame(r, i, "ubuntu", Capacities) : r \in GoogleRegionLists, i \in Implementations}
    \cup {GoogleFrame(<<"us-central1">>, "", "missing", Capacities),
          GoogleFrame(<<"us-central1">>, "", "ubuntu", EmptyDict)}

AzureFrame(locations, implementation, image, capacities) ==
    WithImplementation(
        ([locations |-> locations, image_resource_group |-> "rg-images",
          image |-> Lit(image), tags |-> [owner |-> "relops"]]
         @@ ("worker-purpose" :> "gecko-t")) @@ capacities, implementation)

AzureLocationLists ==
    { <<>>, << <<"eastus">> >>, << <<"north", "-", "europe">>, <<"eastus">> >> }

AzureFrames ==
    {AzureFrame(l, i, "windows", Capacities) :
        l \in AzureLocationLists, i \in {"", "docker-worker"}}
    \cup {AzureFrame(<< <<"eastus">> >>, "", "missing", Capacities),
          AzureFrame(<< <<"eastus">> >>, "", "windows", EmptyDict)}

GenKinds == {"aws", "google", "azure"}

FramesOf(kind) ==
    IF kind = "aws" THEN AwsFrames
    ELSE IF kind = "google" THEN GoogleFrames ELSE AzureFrames

EntriesOf(kind) ==
    IF kind = "aws" THEN AwsEntries
    ELSE IF kind = "google" THEN GoogleEntries ELSE AzureEntries

\* only the AWS generator reads the invalid-instances table
EnvironmentsOf(kind) == IF kind = "aws" THEN Environments ELSE {Env(<<>>)}

GenInput(kind, frame, entries) ==
    [kind |-> kind,
     provider_id |-> IF kind = "google" THEN "gcp" ELSE kind,
     pool_id |-> "gecko-t/" \o kind,
     config |-> Put(frame, IF kind = "azure" THEN "vmSizes" ELSE "instance_types",
                    entries)]

(***************************************************************************)
(* The generator check: one generator call on arguments drawn from         *)
(* GenInputs.                                                              *)
(***************************************************************************)
NotRun == [called |-> FALSE]

Idle ==
    /\ worker_pools = <<>>
    /\ inputs0 = <<>>
    /\ pc = "done"
    /\ wi = 1
    /\ vi = 1
    /\ wp = EmptyDict
    /\ yielded = <<>>
    /\ resources = <<>>
    /\ err = EmptyDict
    /\ run = 1
    /\ first = EmptyDict

GenInit ==
    /\ Idle
    /\ worker_defaults = DefaultsAll
    /\ \E kind \in GenKinds :
          /\ environment \in EnvironmentsOf(kind)
          /\ \E frame \in FramesOf(kind) :
                \E entries \in SeqsUpTo(EntriesOf(kind), MaxTypes) :
                    gin = GenInput(kind, frame, entries)
    /\ gout = NotRun

Generate(kind) ==
    /\ gin.kind = kind
    /\ ~gout.called
    /\ gout' = [called |-> TRUE,
                res |-> ApplyGenerator(kind, environment, gin.provider_id,
                                       gin.pool_id, gin.config, WorkerImages,
                                       worker_defaults)]
    /\ UNCHANGED <<pipeVars, gin>>

GenerateAws == Generate("aws")

GenerateGoogle == Generate("google")

GenerateAzure == Generate("azure")

GenNext == GenerateAws \/ GenerateGoogle \/ GenerateAzure

SpecGen == GenInit /\ [][GenNext]_vars

(***************************************************************************)
(* Raw pool definitions of worker-pools.yml.                               *)
(***************************************************************************)
RawPool(description, pool_id, provider_id, config, variants) ==
    [pool_id |-> pool_id,
     description |-> description,
     owner |-> "release@example.com",
     provider_id |-> provider_id,
     config |-> config,
     email_on_error |-> FALSE,
     variants |-> variants]

Letters == <<[letter |-> "a"], [letter |-> "b"]>>

ByLetterImage == By("letter", ("a" :> Lit("ubuntu")) @@ ("b" :> Lit("windows")))

ByLetterCapacity == By("letter", ("a" :> Lit(10)) @@ ("default" :> Lit(20)))

ByEnvironmentCapacity == By("environment", ("firefoxci" :> Lit(1)) @@ ("default" :> None))

AwsPoolConfig(implementation, entry) ==
    Put(AwsFrame(<<"us-east-1">>, implementation, "ubuntu", Capacities),
        "instance_types", <<entry>>)

GooglePoolConfig(implementation, entry) ==
    Put(GoogleFrame(<<"us-west1">>, implementation, "ubuntu", Capacities),
        "instance_types", <<entry>>)

AzurePoolConfig(entry) ==
    Put(AzureFrame(<< <<"eastus">> >>, "", "windows", Capacities), "vmSizes", <<entry>>)

Catalogue ==
    << \* two variants, every keyed-by field depends on the variant
      RawPool("aws-variants", <<"aws-", "{letter}">>, Lit("aws"),
              [AwsPoolConfig("", [instanceType |-> M5])
                  EXCEPT !["image"] = ByLetterImage,
                         !["maxCapacity"] = ByLetterCapacity,
                         !["minCapacity"] = ByEnvironmentCapacity,
                         !["security"] = By("letter", ("a" :> Lit("trusted"))
                                                   @@ ("b" :> Lit("untrusted")))],
              Letters),
      RawPool("aws-docker", <<"aws-docker">>, Lit("aws"),
              AwsPoolConfig("docker-worker", [instanceType |-> C5, capacityPerInstance |-> 2]),
              <<EmptyDict>>),
      \* ValueError: capacityPerInstance 2 without docker-worker
      RawPool("aws-generic", <<"aws-generic">>, Lit("aws"),
              AwsPoolConfig("generic-worker", [instanceType |-> C5, capacityPerInstance |-> 2]),
              <<EmptyDict>>),
      \* KeyError: no such image
      RawPool("aws-noimage", <<"aws-noimage">>, Lit("aws"),
              Put(AwsFrame(<<"us-east-1">>, "", "missing", Capacities),
                  "instance_types", <<[instanceType |-> M5]>>),
              <<EmptyDict>>),
      \* keyed-by failure inside the generator: no zones for the region
      RawPool("aws-noregion", <<"aws-noregion">>, Lit("aws"),
              Put(AwsFrame(<<"us-west-2", "eu-central-1">>, "", "ubuntu", Capacities),
                  "instance_types", <<[instanceType |-> M5]>>),
              <<EmptyDict>>),
      RawPool("gcp", <<"gcp-", "{letter}">>, Lit("gcp"),
              GooglePoolConfig("", GoogleBase("n2-standard-4")), Letters),
      \* ValueError: top-level capacity key
      RawPool("gcp-capacity", <<"gcp-capacity">>, Lit("gcp"),
              GooglePoolConfig("", GoogleBase("n2-standard-4") @@ [capacity |-> 2]),
              <<EmptyDict>>),
      RawPool("azure", <<"azure">>, Lit("azure"),
              AzurePoolConfig([vmSize |-> "Standard_F8s_v2"]), <<EmptyDict>>),
      \* a provider that is not a worker-manager provider
      RawPool("passthrough", <<"static-", "{letter}">>, Lit("null-provider"),
              [image |-> ByLetterImage, opaque |-> <<"kept", "as", "is">>],
              Letters),
      \* the provider depends on the variant
      RawPool("mixed", <<"mixed-", "{letter}">>,
              By("letter", ("a" :> Lit("aws")) @@ ("default" :> Lit("null-provider"))),
              AwsPoolConfig("", [instanceType |-> M5]), Letters),
      \* KeyError: a provider whose implementation has no generator
      RawPool("static", <<"static">>, Lit("static"),
              AwsPoolConfig("", [instanceType |-> M5]), <<EmptyDict>>),
      RawPool("novariants", <<"novariants">>, Lit("aws"),
              AwsPoolConfig("", [instanceType |-> M5]), <<>>),
      \* KeyError in str.format: the template names an attribute no variant has
      RawPool("badtemplate", <<"bad-", "{size}">>, Lit("aws"),
              AwsPoolConfig("", [instanceType |-> M5]), Letters),
      \* keyed-by failure in the expander: no branch for letter b
      RawPool("badkeyedby", <<"kb-", "{letter}">>, Lit("aws"),
              [AwsPoolConfig("", [instanceType |-> M5])
                  EXCEPT !["image"] = By("letter", ("a" :> Lit("ubuntu")))],
              Letters) >>

\* the lists of at most n distinct positions of the catalogue
PoolChoices(n) ==
    {l \in SeqsUpTo(1..Len(Catalogue), n) : \A i, j \in 1..Len(l) : l[i] = l[j] => i = j}

PoolsAt(choice) == [i \in 1..Len(choice) |-> Catalogue[choice[i]]]

(***************************************************************************)
(* update_resources                                                        *)
(***************************************************************************)
Init ==
    /\ \E choice \in PoolChoices(MaxPools) : worker_pools = PoolsAt(choice)
    /\ worker_defaults \in {DefaultsAll, DefaultsAwsOnly}
    /\ environment \in Environments
    /\ inputs0 = [pools |-> worker_pools, defaults |-> worker_defaults,
                  env |-> environment]
    /\ pc = "expand"
    /\ wi = 1
    /\ vi = 1
    /\ wp = EmptyDict
    /\ yielded = <<>>
    /\ resources = <<>>
    /\ err = EmptyDict
    /\ run = 1
    /\ first = EmptyDict
    /\ gin = NotRun
    /\ gout = NotRun

\* next(generate_pool_variants(...)): run the generator up to its next yield
Expand ==
    /\ pc = "expand"
    /\ LET p == NextPair(worker_pools, wi, vi)
       IN  IF p.w > Len(worker_pools)
           THEN /\ pc' = "done"
                /\ wi' = p.w
                /\ vi' = p.v
                /\ UNCHANGED <<worker_pools, wp, yielded, err>>
           ELSE LET r == ExpandVariant(worker_pools[p.w],
                                       worker_pools[p.w].variants[p.v], environment)
                IN  /\ worker_pools' = [worker_pools EXCEPT ![p.w] = r.raw]
                    /\ wi' = p.w
                    /\ IF r.raised # ""
                       THEN /\ pc' = "error"
                            /\ err' = [src |-> "generate_pool_variants", msg |-> r.raised]
                            /\ vi' = p.v
                            /\ UNCHANGED <<wp, yielded>>
                       ELSE /\ pc' = "make"
                            /\ wp' = r.wp
                            /\ yielded' = Append(yielded, r.wp)
                            /\ vi' = p.v + 1
                            /\ UNCHANGED err
    /\ UNCHANGED <<worker_defaults, environment, inputs0, resources, run, first,
                   gin, gout>>

\* a faulty variant of AddToSink: an exception of make_worker_pool empties the sink
AddOrDrop(m) ==
    /\ wp' = m.wp
    /\ IF m.raised # ""
       THEN /\ pc' = "error"
            /\ err' = [src |-> "make_worker_pool", msg |-> m.raised]
            /\ resources' = <<>>
       ELSE /\ pc' = "expand"
            /\ resources' = Append(resources, m.record)
            /\ UNCHANGED err

\* if apwt: resources.add(apwt) (a WorkerPool is always true, so the add is
\* never skipped); an exception of make_worker_pool leaves the for loop
AddToSink(m) ==
    /\ wp' = m.wp
    /\ IF m.raised # ""
       THEN /\ pc' = "error"
            /\ err' = [src |-> "make_worker_pool", msg |-> m.raised]
            /\ UNCHANGED resources
       ELSE /\ pc' = "expand"
            /\ resources' = Append(resources, m.record)
            /\ UNCHANGED err

\* the body of the for loop: apwt = await make_worker_pool(...); resources.add(apwt)
Make ==
    /\ pc = "make"
    /\ AddToSink(make_worker_pool(environment, wp, WorkerImages, worker_defaults))
    /\ UNCHANGED <<worker_pools, worker_defaults, environment, inputs0, wi, vi,
                   yielded, run, first, gin, gout>>

\* update_resources is called again on the inputs the first run left behind
Rerun ==
    /\ pc \in {"done", "error"}
    /\ run = 1
    /\ first' = [resources |-> resources, pc |-> pc, err |-> err]
    /\ run' = 2
    /\ pc' = "expand"
    /\ wi' = 1
    /\ vi' = 1
    /\ wp' = EmptyDict
    /\ yielded' = <<>>
    /\ resources' = <<>>
    /\ err' = EmptyDict
    /\ UNCHANGED <<worker_pools, worker_defaults, environment, inputs0, gin, gout>>

Next == Expand \/ Make \/ Rerun

Spec == Init /\ [][Next]_vars

(***************************************************************************)
(* Properties of the generators (checked under SpecGen).                   *)
(***************************************************************************)
GenEntries == IF gin.kind = "azure" THEN gin.config["vmSizes"]
              ELSE gin.config["instance_types"]

GenImplementation ==
    Get(gin.config, "implementation",
        IF gin.kind = "azure" THEN "generic-worker/worker-runner-windows"
        ELSE "docker-worker")

GenReturned == gout.called /\ gout.res.raised = ""

CapacityPerInstanceOf(entry) ==
    IF "capacityPerInstance" \in DOMAIN entry THEN entry["capacityPerInstance"] ELSE 1

SomeCapacityPerInstance ==
    \E k \in 1..Len(GenEntries) : CapacityPerInstanceOf(GenEntries[k]) # 1

\* the zone table of the provider of the call, and the zones it gives a region
ZoneTable == IF gin.kind = "aws" THEN environment.aws_config["availability-zones"].alt
             ELSE environment.google_config["zones"].alt

ZonesOf(region) == ZoneTable[region].lit

HasDot(name) == \E i \in 1..Len(name) : name[i] = "."

\* the part of an instance type name before its first "."
FamilyOf(name) ==
    LET d == CHOOSE i \in 1..Len(name) :
                 name[i] = "." /\ \A j \in 1..(i - 1) : name[j] # "."
    IN  [i \in 1..(d - 1) |-> name[i]]

\* some invalid-instances entry contains both the zone and the family
Covered(zone, name) ==
    \E e \in SeqToSet(environment.aws_config["invalid-instances"]) :
        /\ \E i \in 1..Len(e["zones"]) : e["zones"][i] = zone
        /\ \E i \in 1..Len(e["families"]) : e["families"][i] = FamilyOf(name)

\* the (region, zone, entry) positions the nested loops visit
Visited ==
    UNION {{<<r, z, k>> : z \in 1..Len(ZonesOf(gin.config["regions"][r])),
                          k \in 1..Len(GenEntries)} :
           r \in 1..Len(gin.config["regions"])}

ComboZone(t) == ZonesOf(gin.config["regions"][t[1]])[t[2]]

Kept ==
    IF gin.kind = "aws"
    THEN {t \in Visited : ~Covered(ComboZone(t), GenEntries[t[3]]["instanceType"])}
    ELSE Visited

\* region-major, then zone, then instance type
Before(s, t) ==
    \/ s[1] < t[1]
    \/ s[1] = t[1] /\ s[2] < t[2]
    \/ s[1] = t[1] /\ s[2] = t[2] /\ s[3] < t[3]

Rank(t) == Cardinality({s \in Kept : Before(s, t)}) + 1

LaunchConfigs == gout.res.config["launchConfigs"]

NoCapacityKeys ==
    \A k \in 1..Len(GenEntries) :
        /\ "capacity" \notin DOMAIN GenEntries[k]
        /\ \/ "worker-config" \notin DOMAIN GenEntries[k]
           \/ "capacity" \notin DOMAIN GenEntries[k]["worker-config"]

LookupsSucceed ==
    /\ gin.config["image"].lit \in DOMAIN WorkerImages
    /\ "maxCapacity" \in DOMAIN gin.config
    /\ \A r \in 1..Len(gin.config["regions"]) : gin.config["regions"][r] \in DOMAIN ZoneTable
    /\ gin.kind = "aws" =>
           \A k \in 1..Len(GenEntries) : HasDot(GenEntries[k]["instanceType"])

C3_CapacityKeyRaises ==
    (gout.called /\ \E k \in 1..Len(GenEntries) : "capacity" \in DOMAIN GenEntries[k])
        => gout.res.raised # ""

\* C4 as claimed: every launch configuration returned by a generator has a
\* capacityPerInstance key, and its value is 1 unless the implementation is
\* docker-worker.
C4_ExplicitCapacity ==
    GenReturned =>
        \A i \in 1..Len(LaunchConfigs) :
            /\ "capacityPerInstance" \in DOMAIN LaunchConfigs[i]
            /\ GenImplementation # "docker-worker" =>
                   LaunchConfigs[i]["capacityPerInstance"] = 1

\* C7: the AWS launchConfigs list has exactly one launch configuration per
\* (region, zone, instance type) combination that no invalid-instances entry
\* covers, none for a covered one, in region, zone, instance type order.
C7_AwsLaunchConfigs ==
    (GenReturned /\ gin.kind = "aws") =>
        /\ Len(LaunchConfigs) = Cardinality(Kept)
        /\ \A t \in Kept :
              LET lc == LaunchConfigs[Rank(t)]
              IN  /\ lc["region"] = gin.config["regions"][t[1]]
                  /\ lc["launchConfig"]["Placement"]["AvailabilityZone"] = ComboZone(t)
                  /\ lc["launchConfig"]["InstanceType"] = GenEntries[t[3]]["instanceType"]

C7_Witness ==
    /\ GenReturned
    /\ gin.kind = "aws"
    /\ Len(gin.config["regions"]) = 2
    /\ Kept # {}
    /\ Kept # Visited

(***************************************************************************)
(* Properties of a generation run (checked under Spec).                    *)
(***************************************************************************)
Ended == pc \in {"done", "error"}

\* the (definition, variant) positions of the raw definitions, and the
\* place of each in definition order, then variant order
Pairs ==
    UNION {{<<w, v>> : v \in 1..Len(inputs0.pools[w].variants)} :
           w \in 1..Len(inputs0.pools)}

RECURSIVE VariantsBefore(_)
VariantsBefore(w) ==
    IF w <= 1 THEN 0 ELSE VariantsBefore(w - 1) + Len(inputs0.pools[w - 1].variants)

Place(pair) == VariantsBefore(pair[1]) + pair[2]

PairAt(k) == CHOOSE pair \in Pairs : Place(pair) = k

RawOf(pair) == inputs0.pools[pair[1]]

VariantOf(pair) == RawOf(pair).variants[pair[2]]

\* the pool-id template with each replacement field replaced by the
\* variant's attribute of that name
FormattedId(pair) ==
    Join([i \in 1..Len(RawOf(pair).pool_id) |->
            LET piece == RawOf(pair).pool_id[i]
            IN  IF piece \in DOMAIN ReplacementFields
                THEN VariantOf(pair)[ReplacementFields[piece]]
                ELSE piece])

\* the variant's own attributes plus the environment
OwnAttributes(pair) ==
    [a \in {"environment"} \cup DOMAIN VariantOf(pair) |->
        IF a \in DOMAIN VariantOf(pair) THEN VariantOf(pair)[a]
        ELSE inputs0.env.ident]

Resolved(pair, field) == evaluate_keyed_by(field, FormattedId(pair), OwnAttributes(pair))

\* definition d is the expansion of the pair
ExpansionOf(d, pair) ==
    /\ d.pool_id = FormattedId(pair)
    /\ d.provider_id = Resolved(pair, RawOf(pair).provider_id)
    /\ d.description = RawOf(pair).description
    /\ \A key \in DOMAIN RawOf(pair).config :
          IF key \in SeqToSet(KeyedByKeys)
          THEN IF IsNone(Resolved(pair, RawOf(pair).config[key]))
               THEN key \notin DOMAIN d.config
               ELSE /\ key \in DOMAIN d.config
                    /\ d.config[key] = Resolved(pair, RawOf(pair).config[key])
          ELSE key \in DOMAIN d.config /\ d.config[key] = RawOf(pair).config[key]
    /\ DOMAIN d.config \subseteq DOMAIN RawOf(pair).config

\* the pair can be expanded and its record built without an exception
Expands(pair) ==
    /\ \A i \in 1..Len(RawOf(pair).pool_id) :
          RawOf(pair).pool_id[i] \in DOMAIN ReplacementFields =>
              ReplacementFields[RawOf(pair).pool_id[i]] \in DOMAIN VariantOf(pair)
    /\ ~Raised(Resolved(pair, RawOf(pair).provider_id))
    /\ \A key \in DOMAIN RawOf(pair).config \cap SeqToSet(KeyedByKeys) :
          ~Raised(Resolved(pair, RawOf(pair).config[key]))

Builds(pair) ==
    /\ Expands(pair)
    /\ make_worker_pool(inputs0.env,
                        ExpandVariant(RawOf(pair), VariantOf(pair), inputs0.env).wp,
                        WorkerImages, inputs0.defaults).raised = ""

\* C1 as claimed: a pool whose generator raises is skipped for that pool
\* only: when the run has ended, without an exception of the expander, the
\* sink holds a record for every pool whose record can be built, those
\* before and those after a pool whose generator raised.
C1_FailingPoolSkipped ==
    (Ended /\ (pc = "error" => err.src = "make_worker_pool")) =>
        \A pair \in Pairs :
            Builds(pair) =>
                \E k \in 1..Len(resources) : resources[k].workerPoolId = FormattedId(pair)

\* C5: the k-th definition yielded is the expansion of the k-th (definition,
\* variant) pair, in definition order then variant order: its id is the
\* template formatted with the variant's attributes, its keyed-by fields are
\* resolved against that variant's attributes plus the environment; and
\* when the expansion is exhausted there is one definition per pair.
C5_VariantExpansion ==
    /\ Len(yielded) <= Cardinality(Pairs)
    /\ \A k \in 1..Len(yielded) : ExpansionOf(yielded[k], PairAt(k))
    /\ pc = "done" => Len(yielded) = Cardinality(Pairs)

C5_Witness ==
    /\ pc = "done"
    /\ \E k \in 1..(Len(yielded) - 1) :
          /\ PairAt(k)[1] = PairAt(k + 1)[1]
          /\ IsRule(RawOf(PairAt(k)).config["image"])
          /\ yielded[k].config["image"] # yielded[k + 1].config["image"]
          /\ yielded[k].pool_id # yielded[k + 1].pool_id

\* C6 as claimed: a raw definition with an empty variant list is expanded
\* as if it had one default variant: one definition is yielded for it.
C6_EmptyVariantList ==
    pc = "done" =>
        \A w \in 1..Len(inputs0.pools) :
            inputs0.pools[w].variants = <<>> =>
                Cardinality({k \in 1..Len(yielded) :
                    yielded[k].description = inputs0.pools[w].description}) = 1

\* C8: a run never changes its inputs (the raw definitions, the default
\* table, the environment), whether the generators return or raise, and a
\* second run over the same inputs ends as the first did, with the same
\* records in the same order.
C8_InputsUnchanged ==
    /\ worker_pools = inputs0.pools
    /\ worker_defaults = inputs0.defaults
    /\ environment = inputs0.env
    /\ (run = 2 /\ Ended) =>
          /\ pc = first.pc
          /\ err = first.err
          /\ resources = first.resources

C8_Witness ==
    /\ run = 2
    /\ pc = "error"
    /\ err.src = "make_worker_pool"
    /\ Len(resources) >= 2
    /\ \E w \in 1..Len(worker_pools) : IsRule(worker_pools[w].config["image"])

\* the config make_worker_pool must put in the record of definition d
DispatchedConfig(d) ==
    IF d.provider_id.lit \in DOMAIN environment.worker_manager["providers"]
    THEN LET implementation ==
                 environment.worker_manager["providers"][d.provider_id.lit]["implementation"]
         IN  IF implementation = "aws"
             THEN get_aws_provider_config(environment, d.provider_id.lit, d.pool_id,
                      d.config, WorkerImages, worker_defaults).config
             ELSE IF implementation = "google"
             THEN get_google_provider_config(environment, d.provider_id.lit, d.pool_id,
                      d.config, WorkerImages, worker_defaults).config
             ELSE get_azure_provider_config(environment, d.provider_id.lit, d.pool_id,
                      d.config, WorkerImages, worker_defaults).config
    ELSE d.config

\* C9: the record of a definition whose provider is a worker-manager
\* provider holds the config returned by the generator of that provider's
\* implementation; the record of any other definition holds the
\* definition's config unchanged; the definition itself is left as it was.
C9_Dispatch ==
    /\ \A k \in 1..Len(resources) :
          /\ resources[k].config = DispatchedConfig(yielded[k])
          /\ resources[k].providerId = yielded[k].provider_id
    /\ (pc \in {"make", "expand"} /\ yielded # <<>>) => wp = yielded[Len(yielded)]

C9_Witness ==
    \E i, j \in 1..Len(resources) :
        /\ resources[i].providerId = Lit("null-provider")
        /\ resources[i].config = yielded[i].config
        /\ resources[j].providerId = Lit("aws")
        /\ "launchConfigs" \in DOMAIN resources[j].config

\* the records in the sink are those of the first definitions yielded
SinkFollowsYield ==
    /\ Len(resources) <= Len(yielded)
    /\ Len(yielded) <= Len(resources) + 1
    /\ \A k \in 1..Len(resources) : resources[k].workerPoolId = yielded[k].pool_id
    /\ \A k \in 1..Len(yielded) : yielded[k].pool_id = FormattedId(PairAt(k))
    /\ pc = "expand" => Len(resources) = Len(yielded)
    /\ pc = "make" => Len(yielded) = Len(resources) + 1
    /\ pc = "done" => Len(resources) = Len(yielded) /\ Len(yielded) = Cardinality(Pairs)
    /\ pc = "error" =>
          Len(yielded) = Len(resources) + (IF err.src = "make_worker_pool" THEN 1 ELSE 0)

\* within a run a record, once added, stays where it is
SinkOnlyGrows ==
    run' = run =>
        /\ Len(resources) <= Len(resources')
        /\ \A k \in 1..Len(resources) : resources'[k] = resources[k]

\* C10: at every point of a run the sink holds one record, in order, for
\* each definition of a prefix of the expanded sequence, and the next
\* definition is expanded only after the record of the previous one was
\* added; a completed run leaves one record per expanded definition; a run
\* stopped by an exception keeps the records of the earlier pools.
C10_LazyPrefix == []SinkFollowsYield /\ [][SinkOnlyGrows]_vars

C10_Witness ==
    /\ pc = "error"
    /\ err.src = "make_worker_pool"
    /\ Len(resources) >= 2
    /\ Len(yielded) = Len(resources) + 1

====
